---- MODULE Spec2Model ----
(***************************************************************************)
(* Model of porter's sensitive-data sanitizer (pkg/sanitizer/service.go)   *)
(* and of the Run record it is keyed by (pkg/claims/run.go).               *)
(*                                                                         *)
(* Go strings and byte slices are sequences of byte values (0..255), so    *)
(* that the key derivation id + name is a real concatenation and the       *)
(* conversions string([]byte) and []byte(string) are real copies.          *)
(* Strategy source kinds (secrets.Source.Key) are TLA+ strings.            *)
(***************************************************************************)
EXTENDS Integers, Sequences, FiniteSets, TLC

VARIABLES
    runs,      \* IDs of the Runs created so far (claims.Run.ID)
    secrets,   \* the Secret Store: <<sourceKey, sourceValue>> -> plaintext
    issued,    \* history: <<id, sourceKey, sourceValue, kind>> of every create call made,
               \* kind "param" for Parameters, "output" for Output
    last,      \* the call whose result the caller holds: operation, arguments, result
    run        \* the Run the orchestrator works on (claims.Run), NoRun before it is created

vars == <<runs, secrets, issued, last, run>>

----------------------------------------------------------------------------
(* Bounds of the model *)

\* longest strategy list, raw parameter map or output collection passed in one call
MaxBatch == 2

\* largest number of parameter sets attached to a Run
MaxSets == 2

----------------------------------------------------------------------------
(* Strings *)

EmptyString == << >>

\* "p", "q", "n": parameter names; "m", "u": output names
pName == <<112>>
qName == <<113>>
nName == <<110>>
mName == <<109>>
uName == <<117>>

\* "x", "y", "z": plaintext values; "E": the name of an environment variable
xValue == <<120>>
yValue == <<121>>
zValue == <<122>>
envName == <<69>>

\* a payload that is not valid UTF-8
binValue == <<255, 0>>

\* the decimal digits of a natural number, as a string: strconv / json.Marshal of an int
RECURSIVE Itoa(_)
Itoa(n) == IF n < 10 THEN <<48 + n>> ELSE Itoa(n \div 10) \o <<48 + (n % 10)>>

\* string(b) for a byte slice b: a copy of the bytes
StringOfBytes(b) == [i \in 1..Len(b) |-> b[i] % 256]

\* []byte(s) for a string s: a copy of the bytes
BytesOfString(s) == [i \in 1..Len(s) |-> s[i] % 256]

----------------------------------------------------------------------------
(* Errors: nil is NoErr; msg is the outermost message, cause the wrapped one *)

NoErr == [msg |-> "", name |-> EmptyString, key |-> EmptyString, cause |-> ""]

NewErr(m) == [msg |-> m, name |-> EmptyString, key |-> EmptyString, cause |-> ""]

\* errors.Wrap(err, m)
Wrap(err, m) == [msg |-> m, name |-> err.name, key |-> err.key, cause |-> err.msg]

\* errors.WithMessagef(err, "failed to resolve output %q using key %q", name, key)
WithMessagef(err, name, key) ==
    [msg |-> "failed to resolve output using key", name |-> name, key |-> key,
     cause |-> err.msg]

----------------------------------------------------------------------------
(* Run identity *)

\* the IDs cnab.NewULID can issue: ULIDs all have one length
ULIDs == {<<82, 49>>, <<82, 50>>}

\* cnab.NewULID(): some ID never issued before
NewULID(used) == ULIDs \ used

----------------------------------------------------------------------------
(* Bundle metadata *)

\* the bundle of the model: p and q are sensitive parameters, n is not;
\* p is a sensitive output, m is not, u is not defined by the bundle
Bun == [sensitiveParams |-> {pName, qName},
        paramTypes      |-> (pName :> "string") @@ (qName :> "integer") @@ (nName :> "string"),
        outputs         |-> (pName :> TRUE) @@ (mName :> FALSE),
        actions         |-> [a \in {"install", "status", "dry-run", "reset"} |->
                               [Modifies  |-> a \in {"install", "reset"},
                                Stateless |-> a \in {"dry-run", "reset"}]]]

IsSensitiveParameter(bun, name) == name \in bun.sensitiveParams

\* (sensitive, err): an output the bundle does not define is an error
IsOutputSensitive(bun, name) ==
    IF name \in DOMAIN bun.outputs
    THEN [sensitive |-> bun.outputs[name], err |-> NoErr]
    ELSE [sensitive |-> FALSE, err |-> NewErr("output not defined")]

\* a raw (dynamic) parameter value: an integer or a string
RawInt(i) == [t |-> "integer", i |-> i, s |-> EmptyString]
RawString(s) == [t |-> "string", i |-> 0, s |-> s]

\* the canonical string form of a raw value; the declared type may reject it
WriteParameterToString(bun, name, value) ==
    IF name \in DOMAIN bun.paramTypes /\ bun.paramTypes[name] # value.t
    THEN [str |-> EmptyString, err |-> NewErr("conversion error")]
    ELSE [str |-> IF value.t = "integer" THEN Itoa(value.i) ELSE value.s,
          err |-> NoErr]

----------------------------------------------------------------------------
(* Strategy model *)

\* secrets.SourceSecret, the reserved secret-indirection marker
SourceSecret == "secret"

EmptySource == [Key |-> "", Value |-> EmptyString]

\* parameters.DefaultStrategy(name, value): plain strategy, empty source
DefaultStrategy(name, value) ==
    [Name |-> name, Value |-> value, Source |-> EmptySource]

\* encodeSecretParam with the source kind left as it was
encodeSecretParamKeepsKey(param, id) ==
    [param EXCEPT !.Source.Value = id \o param.Name]

\* encodeSecretParam with the key derived from the name alone
encodeSecretParamNoRun(param, id) ==
    [param EXCEPT !.Source = [Key |-> SourceSecret, Value |-> param.Name]]

\* encodeSecretParam(param, id)
encodeSecretParam(param, id) ==
    [param EXCEPT !.Source = [Key |-> SourceSecret, Value |-> id \o param.Name]]

----------------------------------------------------------------------------
(* Secret Store *)

\* secrets.Store.Create(keyName, keyValue, value): fails on a backend failure
\* and on a duplicate key; otherwise the store holds value under the key
StoreCreate(store, keyName, keyValue, value, fail) ==
    IF fail
    THEN [store |-> store, err |-> NewErr("secret store unavailable")]
    ELSE IF <<keyName, keyValue>> \in DOMAIN store
    THEN [store |-> store, err |-> NewErr("duplicate secret key")]
    ELSE [store |-> store @@ (<<keyName, keyValue>> :> value), err |-> NoErr]

\* secrets.Store.Resolve(keyName, keyValue)
StoreResolve(store, keyName, keyValue) ==
    IF <<keyName, keyValue>> \in DOMAIN store
    THEN [value |-> store[<<keyName, keyValue>>], err |-> NoErr]
    ELSE [value |-> EmptyString, err |-> NewErr("secret not found")]

\* the record of one create call
CreateCall(keyName, keyValue, value, err) ==
    [keyName |-> keyName, keyValue |-> keyValue, value |-> value, ok |-> err = NoErr]

----------------------------------------------------------------------------
(* Sanitizer: Parameters *)

\* Parameters encoding every strategy, sensitive or not
ParametersEncodesAll(bun, param) == TRUE

\* Service.Parameters, line 55: the strategy is encoded and its value saved
ParametersEncodes(bun, param) == IsSensitiveParameter(bun, param.Name)

\* the failed create is skipped and the loop goes on
ParametersCreateFailedContinues(st, encodedStrategy, call, err) ==
    [st EXCEPT !.calls = Append(st.calls, call)]

\* a create rejected as a duplicate is taken as done
ParametersCreateFailedAbsorbsDuplicate(st, encodedStrategy, call, err) ==
    IF err.msg = "duplicate secret key"
    THEN [st EXCEPT !.strategies = Append(st.strategies, encodedStrategy),
                    !.calls = Append(st.calls, call)]
    ELSE [strategies |-> << >>, store |-> st.store, calls |-> Append(st.calls, call),
          err |-> Wrap(err, "failed to save sensitive param to secrete store")]

\* Service.Parameters, lines 58-60: the create failed, the call returns nil and
\* the wrapped error. st is the state of the call, call the failed create.
ParametersCreateFailed(st, encodedStrategy, call, err) ==
    [strategies |-> << >>, store |-> st.store, calls |-> Append(st.calls, call),
     err |-> Wrap(err, "failed to save sensitive param to secrete store")]

\* the loop of Parameters putting each strategy in front of the ones before it
ParametersIterPrepends(st, param, bun, id, failAt) ==
    IF st.err # NoErr THEN st
    ELSE LET strategy == DefaultStrategy(param.Name, param.Value) IN
         IF ParametersEncodes(bun, param)
         THEN LET encodedStrategy == encodeSecretParam(strategy, id)
                  r == StoreCreate(st.store, encodedStrategy.Source.Key,
                                   encodedStrategy.Source.Value, encodedStrategy.Value,
                                   Len(st.calls) + 1 = failAt)
                  call == CreateCall(encodedStrategy.Source.Key,
                                     encodedStrategy.Source.Value,
                                     encodedStrategy.Value, r.err)
              IN IF r.err # NoErr
                 THEN ParametersCreateFailed(st, encodedStrategy, call, r.err)
                 ELSE [strategies |-> <<encodedStrategy>> \o st.strategies,
                       store |-> r.store, calls |-> Append(st.calls, call),
                       err |-> NoErr]
         ELSE [st EXCEPT !.strategies = <<strategy>> \o st.strategies]

\* One iteration of the loop of Service.Parameters on param. st is the state
\* of the call: the strategies appended so far, the store, the create calls
\* made and the error the call has returned with (NoErr while it runs).
\* failAt is the number of the create call the backend fails (0: none).
ParametersIter(st, param, bun, id, failAt) ==
    IF st.err # NoErr THEN st
    ELSE LET strategy == DefaultStrategy(param.Name, param.Value) IN
         IF ParametersEncodes(bun, param)
         THEN LET encodedStrategy == encodeSecretParam(strategy, id)
                  r == StoreCreate(st.store, encodedStrategy.Source.Key,
                                   encodedStrategy.Source.Value, encodedStrategy.Value,
                                   Len(st.calls) + 1 = failAt)
                  call == CreateCall(encodedStrategy.Source.Key,
                                     encodedStrategy.Source.Value,
                                     encodedStrategy.Value, r.err)
              IN IF r.err # NoErr
                 THEN ParametersCreateFailed(st, encodedStrategy, call, r.err)
                 ELSE [strategies |-> Append(st.strategies, encodedStrategy),
                       store |-> r.store, calls |-> Append(st.calls, call),
                       err |-> NoErr]
         ELSE [st EXCEPT !.strategies = Append(st.strategies, strategy)]

RECURSIVE ParametersLoop(_, _, _, _, _)
ParametersLoop(st, params, bun, id, failAt) ==
    IF params = << >> THEN st
    ELSE ParametersLoop(ParametersIter(st, Head(params), bun, id, failAt),
                        Tail(params), bun, id, failAt)

\* Parameters taking an empty list for a mistake of the caller
ParametersRejectsEmpty(store, params, bun, id, failAt) ==
    LET st == ParametersLoop([strategies |-> << >>, store |-> store,
                              calls |-> << >>, err |-> NoErr],
                             params, bun, id, failAt)
    IN IF params = << >>
       THEN [strategies |-> << >>, isNil |-> TRUE, err |-> NewErr("no parameters"),
             store |-> store, calls |-> << >>]
       ELSE [strategies |-> st.strategies, isNil |-> st.err # NoErr,
             err |-> st.err, store |-> st.store, calls |-> st.calls]

\* Service.Parameters(params, bun, id) on the store: the strategies returned
\* (isNil: a nil slice), the error, the store afterwards and the create calls made
Parameters(store, params, bun, id, failAt) ==
    LET st == ParametersLoop([strategies |-> << >>, store |-> store,
                              calls |-> << >>, err |-> NoErr],
                             params, bun, id, failAt)
    IN [strategies |-> st.strategies,
        isNil      |-> st.err # NoErr \/ Len(st.strategies) = 0,
        err        |-> st.err,
        store      |-> st.store,
        calls      |-> st.calls]

----------------------------------------------------------------------------
(* Sanitizer: RawParameters *)

\* The first loop of Service.RawParameters over the entries of the map in the
\* order names (Go iterates a map in an arbitrary order): the default
\* strategies built, or the first conversion error.
RECURSIVE RawStrategies(_, _, _)
RawStrategies(params, names, bun) ==
    IF names = << >> THEN [strategies |-> << >>, err |-> NoErr]
    ELSE LET w == WriteParameterToString(bun, Head(names), params[Head(names)]) IN
         IF w.err # NoErr THEN [strategies |-> << >>, err |-> w.err]
         ELSE LET rest == RawStrategies(params, Tail(names), bun) IN
              IF rest.err # NoErr THEN rest
              ELSE [strategies |-> <<DefaultStrategy(Head(names), w.str)>> \o rest.strategies,
                    err |-> NoErr]

\* Service.RawParameters(params, bun, id), the map iterated in the order names
RawParameters(store, params, names, bun, id, failAt) ==
    LET raw == RawStrategies(params, names, bun) IN
    IF raw.err # NoErr
    THEN [strategies |-> << >>, isNil |-> TRUE, err |-> raw.err, store |-> store,
          calls |-> << >>]
    ELSE Parameters(store, raw.strategies, bun, id, failAt)

----------------------------------------------------------------------------
(* Sanitizer: outputs *)

\* encodeOutput(output)
encodeOutput(output) ==
    [output EXCEPT !.Key = output.RunID \o output.Name, !.Value = << >>]

\* Output passing through on a failed check only
OutputPassesThroughOnErrorOnly(sensitive, err) == err # NoErr

\* Service.Output, line 97: the output is returned as it is
OutputPassesThrough(sensitive, err) == err # NoErr \/ ~sensitive

\* Output writing the value of the encoded output
OutputPlaintextEncoded(output, secretOt) == StringOfBytes(secretOt.Value)

\* Service.Output, line 103: the plaintext written to the Secret Store
OutputPlaintext(output, secretOt) == StringOfBytes(output.Value)

\* Output returning the output it was given when the create fails
OutputCreateFailedReturnsOriginal(output, secretOt) == output

\* Service.Output, line 105: the output returned with the error of the create
OutputCreateFailed(output, secretOt) == secretOt

\* Service.Output(output, bun) on the store
Output(store, output, bun, fail) ==
    LET s == IsOutputSensitive(bun, output.Name) IN
    IF OutputPassesThrough(s.sensitive, s.err)
    THEN [output |-> output, err |-> s.err, store |-> store, calls |-> << >>]
    ELSE LET secretOt == encodeOutput(output)
             plain == OutputPlaintext(output, secretOt)
             r == StoreCreate(store, SourceSecret, secretOt.Key, plain, fail)
             call == CreateCall(SourceSecret, secretOt.Key, plain, r.err)
         IN IF r.err # NoErr
            THEN [output |-> OutputCreateFailed(output, secretOt), err |-> r.err,
                  store |-> r.store, calls |-> <<call>>]
            ELSE [output |-> secretOt, err |-> NoErr, store |-> r.store,
                  calls |-> <<call>>]

\* Service.ResolveOutput(output) on the store
ResolveOutput(store, output) ==
    LET r == StoreResolve(store, SourceSecret, output.Key) IN
    IF r.err # NoErr
    THEN [output |-> output, err |-> r.err]
    ELSE [output |-> [output EXCEPT !.Value = BytesOfString(r.value)], err |-> NoErr]

\* claims.NewOutputs(outputs): the collection of the outputs given
NewOutputs(outputs) == outputs

\* ResolveOutputs returning what it has resolved so far with the error
ResolveOutputsFailedPartial(o, resolved, ot, err) ==
    [outputs |-> Append(resolved, ot), resolved |-> resolved, done |-> TRUE,
     err |-> WithMessagef(err, ot.Name, ot.Key)]

\* Service.ResolveOutputs, lines 128-130: resolving ot failed. o is the
\* collection passed in, resolved the outputs appended so far.
ResolveOutputsFailed(o, resolved, ot, err) ==
    [outputs |-> o, resolved |-> resolved, done |-> TRUE,
     err |-> WithMessagef(err, ot.Name, ot.Key)]

\* One iteration of the loop of Service.ResolveOutputs on ot
ResolveOutputsIter(st, o, ot, bun, store) ==
    IF st.done THEN st
    ELSE LET s == IsOutputSensitive(bun, ot.Name) IN
         IF s.err # NoErr \/ ~s.sensitive
         THEN [st EXCEPT !.resolved = Append(st.resolved, ot)]
         ELSE LET r == ResolveOutput(store, ot) IN
              IF r.err # NoErr
              THEN ResolveOutputsFailed(o, st.resolved, ot, r.err)
              ELSE [st EXCEPT !.resolved = Append(st.resolved, r.output)]

RECURSIVE ResolveOutputsLoop(_, _, _, _, _)
ResolveOutputsLoop(st, o, rest, bun, store) ==
    IF rest = << >> THEN st
    ELSE ResolveOutputsLoop(ResolveOutputsIter(st, o, Head(rest), bun, store),
                            o, Tail(rest), bun, store)

\* Service.ResolveOutputs(o, bun) on the store
ResolveOutputs(store, o, bun) ==
    LET st == ResolveOutputsLoop([outputs |-> << >>, resolved |-> << >>,
                                  done |-> FALSE, err |-> NoErr],
                                 o, o, bun, store)
    IN IF st.done
       THEN [outputs |-> st.outputs, err |-> st.err]
       ELSE [outputs |-> NewOutputs(st.resolved), err |-> NoErr]

----------------------------------------------------------------------------
(* Parameter Provider and type conversion *)

\* the environment the Parameter Provider reads
ProviderEnv == (envName :> yValue)

\* the Parameter Provider resolving the source of one strategy: a plain
\* strategy gives its value, an environment source the variable, a secret
\* source the entry of the Secret Store
ProviderResolve(store, strategy) ==
    IF strategy.Source.Key = SourceSecret
    THEN StoreResolve(store, SourceSecret, strategy.Source.Value)
    ELSE IF strategy.Source.Key = "env"
    THEN IF strategy.Source.Value \in DOMAIN ProviderEnv
         THEN [value |-> ProviderEnv[strategy.Source.Value], err |-> NoErr]
         ELSE [value |-> EmptyString, err |-> NewErr("variable not set")]
    ELSE [value |-> strategy.Value, err |-> NoErr]

\* parameters.Provider.ResolveAll on the strategies params: name -> raw value,
\* or the first error. fail: the provider itself fails.
RECURSIVE ResolveAll(_, _, _)
ResolveAll(store, params, fail) ==
    IF fail THEN [params |-> << >>, err |-> NewErr("parameter provider unavailable")]
    ELSE IF params = << >> THEN [params |-> << >>, err |-> NoErr]
    ELSE LET r == ProviderResolve(store, Head(params))
             rest == ResolveAll(store, Tail(params), FALSE)
         IN IF r.err # NoErr THEN [params |-> << >>, err |-> r.err]
            ELSE IF rest.err # NoErr THEN rest
            ELSE [params |-> rest.params @@ (Head(params).Name :> r.value),
                  err |-> NoErr]

IsDigits(str) == str # << >> /\ \A i \in 1..Len(str) : str[i] \in 48..57

\* the natural number a string of digits denotes
RECURSIVE Atoi(_)
Atoi(str) ==
    IF str = << >> THEN 0
    ELSE 10 * Atoi(SubSeq(str, 1, Len(str) - 1)) + (str[Len(str)] - 48)

\* cnab.ExtendedBundle.ConvertParameterValue(name, value): the raw string as
\* a value of the declared type of the parameter
ConvertParameterValue(bun, name, value) ==
    IF name \notin DOMAIN bun.paramTypes
    THEN [value |-> RawString(EmptyString), err |-> NewErr("parameter not defined")]
    ELSE IF bun.paramTypes[name] = "integer"
    THEN IF IsDigits(value)
         THEN [value |-> RawInt(Atoi(value)), err |-> NoErr]
         ELSE [value |-> RawInt(0), err |-> NewErr("conversion error")]
    ELSE [value |-> RawString(value), err |-> NoErr]

\* ResolveParameterSet keeping what the conversion returned when it failed
ResolvedValueUnchecked(bun, name, value) ==
    ConvertParameterValue(bun, name, value).value

\* Service.ResolveParameterSet, lines 83-88: the value stored for name
ResolvedValue(bun, name, value) ==
    LET c == ConvertParameterValue(bun, name, value) IN
    IF c.err # NoErr THEN RawString(value) ELSE c.value

\* Service.ResolveParameterSet(pset, bun) on the store
ResolveParameterSet(store, pset, bun, fail) ==
    LET r == ResolveAll(store, pset.Parameters, fail) IN
    IF r.err # NoErr
    THEN [resolved |-> << >>, isNil |-> TRUE, err |-> r.err]
    ELSE [resolved |-> [name \in DOMAIN r.params |->
                           ResolvedValue(bun, name, r.params[name])],
          isNil |-> FALSE, err |-> NoErr]

\* parameters.ParameterSet.Resolve(resolver, bun): the strategies of the set
\* resolved by the provider, each value converted to its declared type where
\* that succeeds
ParameterSetResolve(store, pset, bun, fail) ==
    LET r == ResolveAll(store, pset.Parameters, fail) IN
    IF r.err # NoErr
    THEN [resolved |-> << >>, err |-> r.err]
    ELSE [resolved |-> [name \in DOMAIN r.params |->
                           LET c == ConvertParameterValue(bun, name, r.params[name])
                           IN IF c.err # NoErr THEN RawString(r.params[name])
                              ELSE c.value],
          err |-> NoErr]

----------------------------------------------------------------------------
(* Run *)

\* the zero value of claims.Run: no Run created yet
NoRun == [ID |-> EmptyString, Action |-> "", Bundle |-> Bun,
          ParameterOverrides |-> << >>, ParameterSets |-> << >>,
          Parameters |-> << >>]

\* the zero value parameters.ParameterSet{}
EmptyParameterSet == [Name |-> "", Internal |-> FALSE, Parameters |-> << >>]

\* parameters.ParameterSet.IsInternalParameterSet()
IsInternalParameterSet(pset) == pset.Internal

\* bundle.Bundle.GetAction(name)
GetAction(bun, name) ==
    IF name \in DOMAIN bun.actions
    THEN [action |-> bun.actions[name], err |-> NoErr]
    ELSE [action |-> [Modifies |-> FALSE, Stateless |-> FALSE],
          err |-> NewErr("action not defined")]

\* ShouldRecord recording only what both modifies and is stateful
ShouldRecordBoth(r) ==
    LET a == GetAction(r.Bundle, r.Action)
        modifies == IF a.err = NoErr THEN a.action.Modifies ELSE TRUE
        stateful == IF a.err = NoErr THEN ~a.action.Stateless ELSE TRUE
    IN modifies /\ stateful

\* Run.ShouldRecord()
ShouldRecord(r) ==
    LET a == GetAction(r.Bundle, r.Action)
        modifies == IF a.err = NoErr THEN a.action.Modifies ELSE TRUE
        stateful == IF a.err = NoErr THEN ~a.action.Stateless ELSE TRUE
    IN modifies \/ stateful

\* the first parameter set taken when none is internal
FirstInternalOrFirst(psets) ==
    IF \E i \in 1..Len(psets) : IsInternalParameterSet(psets[i])
    THEN CHOOSE i \in 1..Len(psets) :
            /\ IsInternalParameterSet(psets[i])
            /\ \A j \in 1..(i - 1) : ~IsInternalParameterSet(psets[j])
    ELSE IF psets # << >> THEN 1 ELSE 0

\* Run.EncodeInternalParameterSet, lines 150-153: the index of the first
\* internal parameter set, 0 when there is none
FirstInternal(psets) ==
    IF \E i \in 1..Len(psets) : IsInternalParameterSet(psets[i])
    THEN CHOOSE i \in 1..Len(psets) :
            /\ IsInternalParameterSet(psets[i])
            /\ \A j \in 1..(i - 1) : ~IsInternalParameterSet(psets[j])
    ELSE 0

\* every parameter of the set encoded, sensitive or not
EncodeInternalParamAll(r, param) ==
    [param EXCEPT !.Source = [Key |-> SourceSecret, Value |-> r.ID \o param.Name]]

\* the key of the indirection derived from the name alone
EncodeInternalParamNoRun(r, param) ==
    IF ~IsSensitiveParameter(r.Bundle, param.Name) THEN param
    ELSE [param EXCEPT !.Source = [Key |-> SourceSecret, Value |-> param.Name]]

\* Run.EncodeInternalParameterSet, lines 157-164: one parameter of the set
EncodeInternalParam(r, param) ==
    IF ~IsSensitiveParameter(r.Bundle, param.Name) THEN param
    ELSE [param EXCEPT !.Source = [Key |-> SourceSecret, Value |-> r.ID \o param.Name]]

\* Run.EncodeInternalParameterSet(): the Run afterwards, the set returned and
\* the boolean returned
EncodeInternalParameterSet(r) ==
    LET i == FirstInternal(r.ParameterSets) IN
    IF i = 0 THEN [run |-> r, pset |-> EmptyParameterSet, ok |-> FALSE]
    ELSE LET pset == [r.ParameterSets[i] EXCEPT !.Parameters =
                        [k \in 1..Len(r.ParameterSets[i].Parameters) |->
                            EncodeInternalParam(r, r.ParameterSets[i].Parameters[k])]]
         IN [run |-> [r EXCEPT !.ParameterSets[i] = pset], pset |-> pset, ok |-> TRUE]

\* the values of the set met first kept on a collision
MergeResolvedKeepsFirst(resolved, params) == resolved @@ params

\* Run.ResolveSensitiveData, lines 185-187: the values of one set written over
\* the mapping
MergeResolved(resolved, params) == params @@ resolved

\* One iteration of the loop of Run.ResolveSensitiveData on the parameter set
\* number i. failAt: the number of the set the provider fails on (0: none).
ResolveSensitiveDataIter(st, r, i, store, failAt) ==
    IF st.err # NoErr THEN st
    ELSE LET p == ParameterSetResolve(store, r.ParameterSets[i], r.Bundle, i = failAt) IN
         IF p.err # NoErr THEN [st EXCEPT !.err = p.err]
         ELSE [st EXCEPT !.resolved = MergeResolved(st.resolved, p.resolved)]

RECURSIVE ResolveSensitiveDataLoop(_, _, _, _, _)
ResolveSensitiveDataLoop(st, r, i, store, failAt) ==
    IF i > Len(r.ParameterSets) THEN st
    ELSE ResolveSensitiveDataLoop(ResolveSensitiveDataIter(st, r, i, store, failAt),
                                  r, i + 1, store, failAt)

\* Run.ResolveSensitiveData(resolver): the Run returned and the error
ResolveSensitiveData(r, store, failAt) ==
    LET st == ResolveSensitiveDataLoop([resolved |-> << >>, err |-> NoErr],
                                       r, 1, store, failAt)
    IN IF st.err # NoErr THEN [run |-> r, err |-> st.err]
       ELSE [run |-> [r EXCEPT !.Parameters = st.resolved], err |-> NoErr]

----------------------------------------------------------------------------
(* Inputs *)

EnvSource == [Key |-> "env", Value |-> envName]

\* "7", the string form of the integer 7
sevenValue == Itoa(7)

\* the strategies a caller passes to Parameters
StrategyInputs ==
    {DefaultStrategy(pName, xValue), DefaultStrategy(pName, yValue),
     DefaultStrategy(qName, sevenValue), DefaultStrategy(nName, xValue),
     [Name |-> nName, Value |-> yValue, Source |-> EnvSource]}

RECURSIVE SeqsUpTo(_, _)
SeqsUpTo(S, n) ==
    IF n = 0 THEN {<< >>}
    ELSE LET shorter == SeqsUpTo(S, n - 1)
         IN shorter \cup {Append(s, x) : s \in {t \in shorter : Len(t) = n - 1}, x \in S}

\* the sequences without repetition of the elements of S: the orders in which
\* a map with the keys S can be iterated
RECURSIVE Orders(_)
Orders(S) ==
    IF S = {} THEN {<< >>}
    ELSE UNION {{<<x>> \o s : s \in Orders(S \ {x})} : x \in S}

\* the raw parameter maps a caller passes to RawParameters
RawInputs ==
    UNION {[names -> {RawString(xValue), RawInt(7)}] :
           names \in {ns \in SUBSET {pName, qName, nName} : Cardinality(ns) <= MaxBatch}}

\* the outputs a caller passes to Output, for the Run id
OutputInputs(id) ==
    {[Name |-> pName, Key |-> EmptyString, Value |-> v, RunID |-> id] :
        v \in {xValue, binValue}}
    \cup {[Name |-> n, Key |-> k, Value |-> v, RunID |-> id] :
            n \in {mName, uName}, k \in {EmptyString, id \o pName},
            v \in {xValue, binValue}}

\* outputs as the history store holds them, for the Run id
PersistedOutputs(id) ==
    {[Name |-> pName, Key |-> id \o pName, Value |-> EmptyString, RunID |-> id],
     [Name |-> mName, Key |-> EmptyString, Value |-> xValue, RunID |-> id],
     [Name |-> uName, Key |-> EmptyString, Value |-> xValue, RunID |-> id]}

----------------------------------------------------------------------------
(* State machine *)

NoCall == [op |-> "none"]

Init ==
    /\ runs = {}
    /\ secrets = << >>
    /\ issued = {}
    /\ last = NoCall
    /\ run = NoRun

\* claims.NewRun(namespace, installation): a Run with a fresh ID
NewRun ==
    /\ last = NoCall
    /\ \E id \in NewULID(runs) : runs' = runs \cup {id}
    /\ UNCHANGED <<secrets, issued, last, run>>

Issue(id, kind, calls) ==
    {<<id, calls[i].keyName, calls[i].keyValue, kind>> : i \in 1..Len(calls)}

\* Service.Parameters(params, bun, id)
CallParameters ==
    /\ last = NoCall
    /\ \E id \in runs, params \in SeqsUpTo(StrategyInputs, MaxBatch) :
       \E failAt \in 0..Len(params) :
         LET r == Parameters(secrets, params, Bun, id, failAt) IN
         /\ secrets' = r.store
         /\ issued' = issued \cup Issue(id, "param", r.calls)
         /\ last' = [op |-> "Parameters", id |-> id, params |-> params, pre |-> secrets,
                     issuedBefore |-> issued,
                     strategies |-> r.strategies, isNil |-> r.isNil, err |-> r.err,
                     calls |-> r.calls]
    /\ UNCHANGED <<runs, run>>

\* Service.RawParameters(params, bun, id)
CallRawParameters ==
    /\ last = NoCall
    /\ \E id \in runs, params \in RawInputs :
       \E names \in Orders(DOMAIN params), failAt \in 0..Cardinality(DOMAIN params) :
         LET r == RawParameters(secrets, params, names, Bun, id, failAt) IN
         /\ secrets' = r.store
         /\ issued' = issued \cup Issue(id, "param", r.calls)
         /\ last' = [op |-> "RawParameters", id |-> id, params |-> params,
                     names |-> names, pre |-> secrets,
                     strategies |-> r.strategies, isNil |-> r.isNil, err |-> r.err,
                     calls |-> r.calls]
    /\ UNCHANGED <<runs, run>>

\* Service.Output(output, bun)
CallOutput ==
    /\ last = NoCall
    /\ \E id \in runs : \E output \in OutputInputs(id), fail \in BOOLEAN :
         LET r == Output(secrets, output, Bun, fail) IN
         /\ secrets' = r.store
         /\ issued' = issued \cup Issue(output.RunID, "output", r.calls)
         /\ last' = [op |-> "Output", id |-> output.RunID, arg |-> output,
                     pre |-> secrets, output |-> r.output, err |-> r.err,
                     calls |-> r.calls]
    /\ UNCHANGED <<runs, run>>

\* Service.ResolveOutput(output), on an output read back from the history
\* store or on the output a call of Output has just returned
CallResolveOutput ==
    /\ last.op \in {"none", "Output"}
    /\ \E output \in IF last.op = "Output" THEN {last.output}
                     ELSE UNION {PersistedOutputs(id) : id \in runs} :
         LET r == ResolveOutput(secrets, output) IN
         last' = [op |-> "ResolveOutput", arg |-> output, pre |-> secrets,
                  output |-> r.output, err |-> r.err,
                  viaOutput |-> last.op = "Output",
                  original |-> IF last.op = "Output" THEN last.arg ELSE output,
                  outputErr |-> IF last.op = "Output" THEN last.err ELSE NoErr]
    /\ UNCHANGED <<runs, secrets, issued, run>>

\* Service.ResolveOutputs(o, bun)
CallResolveOutputs ==
    /\ last = NoCall
    /\ \E o \in SeqsUpTo(UNION {PersistedOutputs(id) : id \in runs}, MaxBatch) :
         LET r == ResolveOutputs(secrets, o, Bun) IN
         last' = [op |-> "ResolveOutputs", arg |-> o, pre |-> secrets,
                  outputs |-> r.outputs, err |-> r.err]
    /\ UNCHANGED <<runs, secrets, issued, run>>

\* the caller takes the result of the call and goes on
Return ==
    /\ last # NoCall
    /\ last' = NoCall
    /\ UNCHANGED <<runs, secrets, issued, run>>

Next ==
    \/ NewRun
    \/ CallParameters
    \/ CallRawParameters
    \/ CallOutput
    \/ CallResolveOutput
    \/ CallResolveOutputs
    \/ Return

Spec == Init /\ [][Next]_vars

----------------------------------------------------------------------------
(* State machine of one Run *)

\* the parameter lists of the parameter sets attached to a Run
RunStrategyLists ==
    {<<DefaultStrategy(pName, xValue), DefaultStrategy(nName, xValue)>>,
     <<[Name |-> nName, Value |-> yValue, Source |-> EnvSource],
       DefaultStrategy(qName, sevenValue)>>,
     <<[Name |-> qName, Value |-> yValue, Source |-> EnvSource],
       DefaultStrategy(pName, yValue)>>}

\* the parameter sets attached to a Run
ParameterSetInputs ==
    {[Name |-> IF internal THEN "internal" ELSE "user", Internal |-> internal,
      Parameters |-> params] : internal \in BOOLEAN, params \in RunStrategyLists}

\* the actions a Run is created for: those of the bundle and one it does not define
ActionInputs == DOMAIN Bun.actions \cup {"custom"}

\* the parameter overrides given for a Run
OverrideInputs == {<< >>, (nName :> RawString(zValue))}

\* claims.NewRun(namespace, installation), the orchestrator keeping the Run
CreateRun ==
    /\ last = NoCall
    /\ run = NoRun
    /\ \E id \in NewULID(runs) :
         /\ runs' = runs \cup {id}
         /\ run' = [NoRun EXCEPT !.ID = id]
    /\ UNCHANGED <<secrets, issued, last>>

\* the orchestrator sets the action, the parameter sets and the overrides of
\* the Run it has created
AttachRun ==
    /\ last = NoCall
    /\ run.ID # EmptyString
    /\ run.Action = ""
    /\ \E action \in ActionInputs, overrides \in OverrideInputs,
          psets \in SeqsUpTo(ParameterSetInputs, MaxSets) :
         run' = [run EXCEPT !.Action = action, !.ParameterOverrides = overrides,
                            !.ParameterSets = psets]
    /\ UNCHANGED <<runs, secrets, issued, last>>

\* Run.ShouldRecord()
CallShouldRecord ==
    /\ last = NoCall
    /\ run.Action # ""
    /\ last' = [op |-> "ShouldRecord", ret |-> ShouldRecord(run)]
    /\ UNCHANGED <<runs, secrets, issued, run>>

\* Run.EncodeInternalParameterSet()
CallEncodeInternalParameterSet ==
    /\ last = NoCall
    /\ run.Action # ""
    /\ LET r == EncodeInternalParameterSet(run) IN
         /\ run' = r.run
         /\ last' = [op |-> "EncodeInternalParameterSet", pre |-> run,
                     preStore |-> secrets, pset |-> r.pset, ok |-> r.ok]
    /\ UNCHANGED <<runs, secrets, issued>>

\* Run.ResolveSensitiveData(resolver)
CallResolveSensitiveData ==
    /\ last = NoCall
    /\ run.Action # ""
    /\ \E failAt \in 0..Len(run.ParameterSets) :
         LET r == ResolveSensitiveData(run, secrets, failAt) IN
         last' = [op |-> "ResolveSensitiveData", preStore |-> secrets,
                  run |-> r.run, err |-> r.err]
    /\ UNCHANGED <<runs, secrets, issued, run>>

\* Service.ResolveParameterSet(pset, bun) on a parameter set of the Run
CallResolveParameterSet ==
    /\ last = NoCall
    /\ run.Action # ""
    /\ \E i \in 1..Len(run.ParameterSets), fail \in BOOLEAN :
         LET r == ResolveParameterSet(secrets, run.ParameterSets[i], run.Bundle, fail) IN
         last' = [op |-> "ResolveParameterSet", pset |-> run.ParameterSets[i],
                  preStore |-> secrets, providerFailed |-> fail,
                  resolved |-> r.resolved, isNil |-> r.isNil, err |-> r.err]
    /\ UNCHANGED <<runs, secrets, issued, run>>

\* Service.Parameters(pset.Parameters, bun, run.ID) on the internal parameter
\* set of the Run
CallParametersOfRun ==
    /\ last = NoCall
    /\ run.Action # ""
    /\ FirstInternal(run.ParameterSets) # 0
    /\ LET params == run.ParameterSets[FirstInternal(run.ParameterSets)].Parameters IN
       \E failAt \in 0..Len(params) :
         LET r == Parameters(secrets, params, run.Bundle, run.ID, failAt) IN
         /\ secrets' = r.store
         /\ issued' = issued \cup Issue(run.ID, "param", r.calls)
         /\ last' = [op |-> "Parameters", id |-> run.ID, params |-> params,
                     pre |-> secrets, issuedBefore |-> issued,
                     strategies |-> r.strategies, isNil |-> r.isNil, err |-> r.err,
                     calls |-> r.calls]
    /\ UNCHANGED <<runs, run>>

NextRun ==
    \/ CreateRun
    \/ AttachRun
    \/ CallShouldRecord
    \/ CallEncodeInternalParameterSet
    \/ CallResolveSensitiveData
    \/ CallResolveParameterSet
    \/ CallParametersOfRun
    \/ Return

SpecRun == Init /\ [][NextRun]_vars

----------------------------------------------------------------------------
(* Properties *)

SensitiveParam(param) == IsSensitiveParameter(Bun, param.Name)

SensitiveOutput(output) ==
    LET s == IsOutputSensitive(Bun, output.Name) IN s.err = NoErr /\ s.sensitive

\* the key a sensitive parameter or output name of the Run id is stored under
SecretKey(id, name) == <<SourceSecret, id \o name>>

\* C1: when Parameters returns without error, every returned strategy with a
\* sensitive name has source.key = the secret marker and source.value =
\* runID+name, and the Secret Store holds the plaintext passed in for it under
\* the key (secret marker, runID+name).
C1_SensitiveParameterStored ==
    (last.op = "Parameters" /\ last.err = NoErr) =>
        /\ Len(last.strategies) = Len(last.params)
        /\ \A i \in 1..Len(last.strategies) :
             LET s == last.strategies[i] IN
             SensitiveParam(s) =>
                /\ s.Source.Key = SourceSecret
                /\ s.Source.Value = last.id \o s.Name
                /\ SecretKey(last.id, s.Name) \in DOMAIN secrets
                /\ secrets[SecretKey(last.id, s.Name)] = last.params[i].Value

\* Parameters has returned a sensitive strategy beside a non-sensitive one
C1_Witness ==
    /\ last.op = "Parameters"
    /\ last.err = NoErr
    /\ Len(last.strategies) = 2
    /\ SensitiveParam(last.strategies[2])
    /\ ~SensitiveParam(last.strategies[1])
    /\ last.params[2].Value = yValue

\* C2: a strategy returned by Parameters or RawParameters whose source.key is
\* the secret marker carries no plaintext in its value field.
C2_NoPlaintextInSanitizedStrategy ==
    (last.op \in {"Parameters", "RawParameters"}) =>
        \A i \in 1..Len(last.strategies) :
            last.strategies[i].Source.Key = SourceSecret =>
                last.strategies[i].Value = EmptyString

\* C3 as stated: Parameters on one non-sensitive strategy returns that strategy
\* with all its fields as given, and makes no create call.
C3_NonSensitiveReturnedAsGiven ==
    (/\ last.op = "Parameters"
     /\ Len(last.params) = 1
     /\ ~SensitiveParam(last.params[1])) =>
        /\ last.err = NoErr
        /\ ~last.isNil
        /\ last.strategies = last.params
        /\ last.calls = << >>
        /\ secrets = last.pre

\* C3, amended: Parameters on one non-sensitive strategy returns one strategy
\* with the same name and value and the source of a default strategy (an
\* indirection the input carried is stripped); no create call is made and the
\* Secret Store is unchanged.
C3_NonSensitiveReturnedDefaulted ==
    (/\ last.op = "Parameters"
     /\ Len(last.params) = 1
     /\ ~SensitiveParam(last.params[1])) =>
        /\ last.err = NoErr
        /\ ~last.isNil
        /\ last.strategies =
              <<DefaultStrategy(last.params[1].Name, last.params[1].Value)>>
        /\ last.calls = << >>
        /\ secrets = last.pre

\* Parameters has returned a non-sensitive strategy that came with a source,
\* the Secret Store holding secrets already
C3_Witness ==
    /\ last.op = "Parameters"
    /\ Len(last.params) = 1
    /\ ~SensitiveParam(last.params[1])
    /\ last.params[1].Source = EnvSource
    /\ Len(last.strategies) = 1
    /\ DOMAIN secrets # {}

\* C4 as stated: ResolveOutput on the output Output returned for an output
\* with a non-empty payload yields the original bytes.
C4_OutputRoundTrip ==
    (/\ last.op = "ResolveOutput"
     /\ last.viaOutput
     /\ Len(last.original.Value) > 0) =>
        last.output.Value = last.original.Value

\* C4, amended: for a sensitive output with a non-empty payload, when Output
\* returns without error, ResolveOutput on the output it returned succeeds and
\* yields the original bytes.
C4_SanitizedOutputRoundTrip ==
    (/\ last.op = "ResolveOutput"
     /\ last.viaOutput
     /\ Len(last.original.Value) > 0
     /\ SensitiveOutput(last.original)
     /\ last.outputErr = NoErr) =>
        /\ last.err = NoErr
        /\ last.output.Value = last.original.Value
        /\ last.arg.Value = << >>

\* ResolveOutput has resolved a sanitized output with a binary payload
C4_Witness ==
    /\ last.op = "ResolveOutput"
    /\ last.viaOutput
    /\ SensitiveOutput(last.original)
    /\ last.outputErr = NoErr
    /\ last.original.Value = binValue
    /\ last.arg.Value = << >>
    /\ last.output.Value = binValue

\* C5: no create call made for one Run uses the key of a create call made for
\* a Run with another ID.
C5_NoKeySharedByRuns ==
    \A a \in issued, b \in issued :
        a[1] # b[1] => <<a[2], a[3]>> # <<b[2], b[3]>>

\* both Runs have made create calls for the same name, for a parameter and for
\* an output
C5_Witness ==
    /\ \E a \in issued, b \in issued :
          a[1] # b[1] /\ a[3] = a[1] \o pName /\ b[3] = b[1] \o pName
    /\ \E a \in issued : a[3] = a[1] \o qName
    /\ last.op = "Output"
    /\ last.calls # << >>

\* the number of the first create call of calls that failed, 0 if none did
FirstFailed(calls) ==
    IF \E i \in 1..Len(calls) : ~calls[i].ok
    THEN CHOOSE i \in 1..Len(calls) :
            ~calls[i].ok /\ \A j \in 1..(i - 1) : calls[j].ok
    ELSE 0

\* C6: in Parameters, the first create that fails ends the call with an error:
\* it is the last create of the call, the creates are those of the sensitive
\* strategies up to it in list order, and every create before it is still in
\* the Secret Store.
C6_FirstFailureAbortsBatch ==
    (last.op = "Parameters" /\ FirstFailed(last.calls) # 0) =>
        LET k == FirstFailed(last.calls)
            sens == SelectSeq(last.params, SensitiveParam)
        IN /\ last.err # NoErr
           /\ last.isNil
           /\ Len(last.calls) = k
           /\ k <= Len(sens)
           /\ \A i \in 1..k :
                /\ last.calls[i].keyName = SourceSecret
                /\ last.calls[i].keyValue = last.id \o sens[i].Name
           /\ \A i \in 1..(k - 1) :
                /\ SecretKey(last.id, sens[i].Name) \notin DOMAIN last.pre
                /\ SecretKey(last.id, sens[i].Name) \in DOMAIN secrets
                /\ secrets[SecretKey(last.id, sens[i].Name)] = sens[i].Value
           /\ \A key \in DOMAIN last.pre :
                key \in DOMAIN secrets /\ secrets[key] = last.pre[key]

\* Parameters on two sensitive strategies: the first create succeeded and is
\* in the store, the second failed
C6_Witness ==
    /\ last.op = "Parameters"
    /\ Len(last.params) = 2
    /\ Len(last.calls) = 2
    /\ last.calls[1].ok
    /\ ~last.calls[2].ok
    /\ last.err # NoErr
    /\ SecretKey(last.id, last.params[1].Name) \in DOMAIN secrets \ DOMAIN last.pre

\* C7: Parameters on a sensitive name whose key (secret marker, runID+name) an
\* earlier call with the same runID has created makes a create call with that
\* same key; the store rejects it and the call returns the failure as its error.
C7_DuplicateCreateSurfaces ==
    (last.op = "Parameters") =>
        LET sens == SelectSeq(last.params, SensitiveParam) IN
        (sens # << >> /\ SecretKey(last.id, sens[1].Name) \in DOMAIN last.pre) =>
            /\ \E c \in last.issuedBefore : c[1] = last.id /\
                  <<c[2], c[3]>> = SecretKey(last.id, sens[1].Name)
            /\ Len(last.calls) = 1
            /\ last.calls[1].keyName = SourceSecret
            /\ last.calls[1].keyValue = last.id \o sens[1].Name
            /\ ~last.calls[1].ok
            /\ last.err # NoErr
            /\ last.isNil
            /\ secrets = last.pre

\* a second Parameters call for q of the same Run was rejected as a duplicate
C7_Witness ==
    /\ last.op = "Parameters"
    /\ Len(last.params) = 1
    /\ last.params[1].Name = qName
    /\ SecretKey(last.id, qName) \in DOMAIN last.pre
    /\ last.err.cause = "duplicate secret key"
    /\ last.isNil

\* C8: when the create of Output fails, Output returns the error with the
\* encoded output: key = runID+name, value cleared.
C8_OutputFailureReturnsEncoded ==
    (last.op = "Output" /\ last.calls # << >> /\ ~last.calls[1].ok) =>
        /\ last.err # NoErr
        /\ last.output.Key = last.arg.RunID \o last.arg.Name
        /\ last.output.Value = << >>
        /\ last.output.Name = last.arg.Name
        /\ last.output.RunID = last.arg.RunID
        /\ last.output # last.arg

\* the create of Output failed for a sensitive output with a payload
C8_Witness ==
    /\ last.op = "Output"
    /\ SensitiveOutput(last.arg)
    /\ last.arg.Value = xValue
    /\ last.err # NoErr
    /\ last.output.Key = last.arg.RunID \o pName
    /\ secrets = last.pre

\* C9: Output on an output that is not sensitive, or whose sensitivity check
\* fails, returns the output as given with the error of the check, and makes
\* no create call.
C9_OutputPassThrough ==
    (last.op = "Output" /\ ~SensitiveOutput(last.arg)) =>
        /\ last.output = last.arg
        /\ last.err = IsOutputSensitive(Bun, last.arg.Name).err
        /\ last.calls = << >>
        /\ secrets = last.pre

\* Output on an output the bundle does not define, with a key and a payload
C9_Witness ==
    /\ last.op = "Output"
    /\ last.arg.Name = uName
    /\ last.arg.Key # EmptyString
    /\ last.err # NoErr
    /\ last.output = last.arg

\* the positions of the sensitive outputs of o that the store cannot resolve
Unresolvable(store, o) ==
    {i \in 1..Len(o) : SensitiveOutput(o[i]) /\ <<SourceSecret, o[i].Key>> \notin DOMAIN store}

Min(S) == CHOOSE x \in S : \A y \in S : x <= y

\* C10: when a sensitive output of the batch cannot be resolved, ResolveOutputs
\* returns an error naming the first such output and the collection it was
\* given, nothing resolved; otherwise every sensitive output it returns is
\* resolved.
C10_ResolveOutputsAllOrNothing ==
    (last.op = "ResolveOutputs") =>
        LET bad == Unresolvable(last.pre, last.arg) IN
        IF bad # {}
        THEN /\ last.err # NoErr
             /\ last.err.name = last.arg[Min(bad)].Name
             /\ last.err.key = last.arg[Min(bad)].Key
             /\ last.outputs = last.arg
        ELSE /\ last.err = NoErr
             /\ Len(last.outputs) = Len(last.arg)
             /\ \A i \in 1..Len(last.outputs) :
                  SensitiveOutput(last.outputs[i]) =>
                     last.outputs[i].Value =
                        last.pre[<<SourceSecret, last.outputs[i].Key>>]

\* ResolveOutputs failed on the second sensitive output after the first could
\* be resolved
C10_Witness ==
    /\ last.op = "ResolveOutputs"
    /\ Len(last.arg) = 2
    /\ SensitiveOutput(last.arg[1])
    /\ SensitiveOutput(last.arg[2])
    /\ Unresolvable(last.pre, last.arg) = {2}
    /\ last.err # NoErr
    /\ last.outputs = last.arg

\* C16: when Parameters returns without error on a non-empty list, it returns
\* as many strategies as it was given, the one at each position with the name
\* of the strategy given at that position.
C16_ParametersKeepsOrder ==
    (last.op = "Parameters" /\ last.err = NoErr /\ last.params # << >>) =>
        /\ ~last.isNil
        /\ Len(last.strategies) = Len(last.params)
        /\ \A i \in 1..Len(last.params) :
             last.strategies[i].Name = last.params[i].Name

\* Parameters has returned a sensitive strategy followed by a non-sensitive one
C16_Witness ==
    /\ last.op = "Parameters"
    /\ last.err = NoErr
    /\ Len(last.params) = 2
    /\ SensitiveParam(last.params[1])
    /\ ~SensitiveParam(last.params[2])
    /\ last.strategies[1].Name = last.params[1].Name
    /\ last.strategies[1].Source.Key = SourceSecret

\* C18: Parameters on an empty list returns a nil result and no error, and
\* makes no call of the Secret Store.
C18_EmptyParameters ==
    (last.op = "Parameters" /\ last.params = << >>) =>
        /\ last.isNil
        /\ last.strategies = << >>
        /\ last.err = NoErr
        /\ last.calls = << >>
        /\ secrets = last.pre

\* Parameters has returned from an empty list, the store holding secrets
C18_Witness ==
    /\ last.op = "Parameters"
    /\ last.params = << >>
    /\ last.isNil
    /\ DOMAIN secrets # {}

\* C20: within one Run, no create call of Parameters and create call of Output
\* use the same key of the Secret Store.
C20_ParameterAndOutputKeysDisjoint ==
    \A a \in issued, b \in issued :
        (a[1] = b[1] /\ a[4] = "param" /\ b[4] = "output") =>
            <<a[2], a[3]>> # <<b[2], b[3]>>

----------------------------------------------------------------------------
(* Properties of the Run *)

\* C11: ShouldRecord returns false exactly when the action of the Run is
\* defined by its bundle with modifies = false and stateless = true.
C11_ShouldRecord ==
    (last.op = "ShouldRecord") =>
        (last.ret = FALSE <=>
            /\ run.Action \in DOMAIN run.Bundle.actions
            /\ ~run.Bundle.actions[run.Action].Modifies
            /\ run.Bundle.actions[run.Action].Stateless)

\* ShouldRecord has returned false for a Run of the stateless, non-modifying action
C11_Witness ==
    /\ last.op = "ShouldRecord"
    /\ run.Action = "dry-run"
    /\ last.ret = FALSE

\* the names of the parameters of a parameter set
NamesOf(pset) == {pset.Parameters[i].Name : i \in 1..Len(pset.Parameters)}

\* the number of the last parameter set of psets with a parameter name
LastSetWith(psets, name) ==
    CHOOSE i \in 1..Len(psets) :
        /\ name \in NamesOf(psets[i])
        /\ \A j \in (i + 1)..Len(psets) : name \notin NamesOf(psets[j])

\* C12: when ResolveSensitiveData succeeds, the Parameters of the Run it
\* returns map every name of every parameter set to the value resolved for it
\* in the last set in list order that has the name; nothing else of the Run
\* differs and the parameter sets are as they were.
C12_LaterSetWins ==
    (last.op = "ResolveSensitiveData" /\ last.err = NoErr) =>
        /\ DOMAIN last.run.Parameters =
              UNION {NamesOf(run.ParameterSets[i]) : i \in 1..Len(run.ParameterSets)}
        /\ \A name \in DOMAIN last.run.Parameters :
              last.run.Parameters[name] =
                 ParameterSetResolve(last.preStore,
                     run.ParameterSets[LastSetWith(run.ParameterSets, name)],
                     run.Bundle, FALSE).resolved[name]
        /\ last.run = [run EXCEPT !.Parameters = last.run.Parameters]
        /\ last.run.ParameterSets = run.ParameterSets

\* ResolveSensitiveData has merged two sets that both have n, with different
\* values
C12_Witness ==
    /\ last.op = "ResolveSensitiveData"
    /\ last.err = NoErr
    /\ Len(run.ParameterSets) = 2
    /\ run.ParameterSets[1].Parameters[2] = DefaultStrategy(nName, xValue)
    /\ run.ParameterSets[2].Parameters[1].Name = nName
    /\ last.run.Parameters[nName] = RawString(yValue)
    /\ last.run.Parameters[pName] = RawString(xValue)
    /\ last.run.Parameters[qName] = RawInt(7)

\* C13: after ResolveSensitiveData, every name of ParameterOverrides maps to
\* its override value in the Parameters of the Run returned.
C13_OverridesTakePrecedence ==
    (last.op = "ResolveSensitiveData" /\ last.err = NoErr) =>
        \A name \in DOMAIN run.ParameterOverrides :
            /\ name \in DOMAIN last.run.Parameters
            /\ last.run.Parameters[name] = run.ParameterOverrides[name]

\* C14: EncodeInternalParameterSet on a Run without an internal parameter set
\* returns the empty set and false, and leaves the Run as it was.
C14_NoInternalSetNothingEncoded ==
    (/\ last.op = "EncodeInternalParameterSet"
     /\ \A i \in 1..Len(last.pre.ParameterSets) : ~last.pre.ParameterSets[i].Internal) =>
        /\ ~last.ok
        /\ last.pset = EmptyParameterSet
        /\ run = last.pre

\* EncodeInternalParameterSet has returned from a Run whose sets are not
\* internal, the first with a sensitive parameter
C14_Witness ==
    /\ last.op = "EncodeInternalParameterSet"
    /\ Len(run.ParameterSets) = 2
    /\ \A i \in 1..2 : ~run.ParameterSets[i].Internal
    /\ run.ParameterSets[1].Parameters[1] = DefaultStrategy(pName, xValue)
    /\ ~last.ok

\* C15: EncodeInternalParameterSet on a Run with an internal parameter set
\* returns the first one in list order and true; in that set the source of
\* every sensitive parameter is (secret marker, runID+name) and nothing else is
\* changed; the other sets, the rest of the Run and the Secret Store are as
\* they were.
C15_FirstInternalSetEncoded ==
    (/\ last.op = "EncodeInternalParameterSet"
     /\ \E i \in 1..Len(last.pre.ParameterSets) : last.pre.ParameterSets[i].Internal) =>
        LET before == last.pre.ParameterSets
            k == CHOOSE i \in 1..Len(before) :
                    before[i].Internal /\ \A j \in 1..(i - 1) : ~before[j].Internal
        IN /\ last.ok
           /\ last.pset = run.ParameterSets[k]
           /\ run = [last.pre EXCEPT !.ParameterSets[k] = last.pset]
           /\ last.pset = [before[k] EXCEPT !.Parameters = last.pset.Parameters]
           /\ Len(last.pset.Parameters) = Len(before[k].Parameters)
           /\ \A i \in 1..Len(before[k].Parameters) :
                LET old == before[k].Parameters[i]
                    new == last.pset.Parameters[i]
                IN IF SensitiveParam(old)
                   THEN new = [old EXCEPT !.Source =
                                 [Key |-> SourceSecret, Value |-> run.ID \o old.Name]]
                   ELSE new = old
           /\ secrets = last.preStore

\* EncodeInternalParameterSet on a Run with two internal sets: the sensitive p
\* of the first is encoded beside the non-sensitive n, the sensitive q of the
\* second is not
C15_Witness ==
    /\ last.op = "EncodeInternalParameterSet"
    /\ last.ok
    /\ Len(run.ParameterSets) = 2
    /\ run.ParameterSets[1].Internal
    /\ run.ParameterSets[2].Internal
    /\ run.ParameterSets[1].Parameters[1].Source = [Key |-> SourceSecret, Value |-> run.ID \o pName]
    /\ run.ParameterSets[1].Parameters[2] = DefaultStrategy(nName, xValue)
    /\ run.ParameterSets[2].Parameters[2] = DefaultStrategy(qName, sevenValue)

\* C17: when the Parameter Provider resolves the set, ResolveParameterSet
\* returns no error and a mapping with the names the provider returned, each
\* with the converted value when the conversion succeeds and with the raw
\* value when it fails.
C17_ConversionDegradesToRaw ==
    (last.op = "ResolveParameterSet") =>
        LET pr == ResolveAll(last.preStore, last.pset.Parameters, last.providerFailed) IN
        pr.err = NoErr =>
            /\ last.err = NoErr
            /\ ~last.isNil
            /\ DOMAIN last.resolved = DOMAIN pr.params
            /\ \A name \in DOMAIN pr.params :
                 LET c == ConvertParameterValue(Bun, name, pr.params[name]) IN
                 last.resolved[name] =
                    IF c.err = NoErr THEN c.value ELSE RawString(pr.params[name])

\* ResolveParameterSet has returned the raw value of the integer parameter q,
\* which is no number, beside the value of p
C17_Witness ==
    /\ last.op = "ResolveParameterSet"
    /\ last.err = NoErr
    /\ DOMAIN last.resolved = {pName, qName}
    /\ last.resolved[qName] = RawString(yValue)
    /\ last.resolved[pName] = RawString(yValue)

\* C19: for every sensitive parameter of the internal parameter set of the
\* Run, the source EncodeInternalParameterSet wrote is the source of the
\* strategy Parameters returns for it with id = the ID of the Run, and after
\* Parameters has succeeded it addresses the Secret Store entry that holds the
\* plaintext of the parameter.
C19_RunAndSanitizerAgreeOnKey ==
    (last.op = "Parameters" /\ last.err = NoErr) =>
        LET onRun == run.ParameterSets[FirstInternal(run.ParameterSets)].Parameters IN
        \A i \in 1..Len(last.params) :
            (SensitiveParam(last.params[i]) /\ onRun[i].Source.Key = SourceSecret) =>
                /\ onRun[i].Source = last.strategies[i].Source
                /\ <<onRun[i].Source.Key, onRun[i].Source.Value>> \in DOMAIN secrets
                /\ secrets[<<onRun[i].Source.Key, onRun[i].Source.Value>>] =
                      last.params[i].Value

\* Parameters has succeeded on the internal set of a Run that
\* EncodeInternalParameterSet had encoded
C19_Witness ==
    /\ last.op = "Parameters"
    /\ last.err = NoErr
    /\ FirstInternal(run.ParameterSets) = 2
    /\ run.ParameterSets[2].Parameters[2].Name = pName
    /\ run.ParameterSets[2].Parameters[2].Source.Key = SourceSecret
    /\ last.strategies[2].Source = run.ParameterSets[2].Parameters[2].Source
    /\ secrets[SecretKey(run.ID, pName)] = yValue

====
